---- MODULE Spec2Model ----
(***************************************************************************)
(* PlanIt multi-agent planner (planit_simulation.py).                      *)
(*                                                                         *)
(* A candidate route is a Python dict; it is modelled as a function whose  *)
(* DOMAIN is the set of keys the dict holds.  Floats are modelled as exact *)
(* rationals <<num, den>>; the weights 0.6 / 0.4 are kept in tenths (6, 4) *)
(* and a score is a rational over the denominator 10 * time * cost.        *)
(*                                                                         *)
(* Two specifications share the definitions of the agents:                 *)
(*   Spec       the driver run_planit, one action per pipeline stage;      *)
(*              RouteAgent is the pluggable route source, its literal list *)
(*              is one of the lists it may return;                         *)
(*   SpecAgents one call of one agent's process() (or of select_best) on   *)
(*              an argument drawn from a bounded set.                      *)
(***************************************************************************)
EXTENDS Integers, Sequences, FiniteSets

VARIABLES pc, user_input, source, routes, weights, best, error, log, printed

vars == <<pc, user_input, source, routes, weights, best, error, log, printed>>

(* ------------------------------ bounds -------------------------------- *)
MaxRoutes == 2

Priorities == {"fast", "cheap", "other"}
Distances == {-1, 0, 8, 10, 14}
Times == {-1, 0, 15, 20, 25}
UnitDistances == {-1, 0, 2}
UnitTimes == {-1, 0, 1, 2}
UnitCosts == {-1, 0, 1, 2}
UnitWeights == {0, 4, 6}
ScoreTimeAlts == {<<1, 1>>, <<1, 2>>}

(* ------------------------------ helpers ------------------------------- *)
\* r[k] = v on a dict: adds the key or overwrites it
DictSet(r, k, v) == [x \in (DOMAIN r) \cup {k} |-> IF x = k THEN v ELSE r[x]]

RouteName(i) ==
    CASE i = 1 -> "Route A"
      [] i = 2 -> "Route B"
      [] i = 3 -> "Route C"
      [] i = 4 -> "Route D"
      [] OTHER -> "Route E"

\* exact rationals <<num, den>>, den # 0
RatNorm(a) == IF a[2] < 0 THEN <<0 - a[1], 0 - a[2]>> ELSE a
RatGT(a, b) == RatNorm(a)[1] * RatNorm(b)[2] > RatNorm(b)[1] * RatNorm(a)[2]
RatEQ(a, b) == RatNorm(a)[1] * RatNorm(b)[2] = RatNorm(b)[1] * RatNorm(a)[2]

NoError == [kind |-> "", candidate |-> ""]
NoWeights == [time_weight |-> 0, cost_weight |-> 0]

(* ------------------------------ agents -------------------------------- *)
PreferenceAgent_swapped(ui) ==
    [time_weight |-> IF ui["priority"] = "cheap" THEN 4 ELSE 6,
     cost_weight |-> IF ui["priority"] = "cheap" THEN 6 ELSE 4]

\* PreferenceAgent.process: weights in tenths
PreferenceAgent_process(ui) ==
    [time_weight |-> IF ui["priority"] = "fast" THEN 6 ELSE 4,
     cost_weight |-> IF ui["priority"] = "fast" THEN 4 ELSE 6]

\* the literal list of RouteAgent.process, as <<distance, time>> pairs
LiteralRoutes == << <<10, 20>>, <<14, 15>>, <<8, 25>> >>

RouteAgent_reversed(src) ==
    [i \in 1..Len(src) |->
        [route |-> RouteName(i),
         distance |-> src[Len(src) + 1 - i][1],
         time |-> src[Len(src) + 1 - i][2]]]

\* RouteAgent.process: the candidates, identifier / distance / time only
RouteAgent_process(src) ==
    [i \in 1..Len(src) |->
        [route |-> RouteName(i), distance |-> src[i][1], time |-> src[i][2]]]

CostPerDistance == 5

CostAgent_offbyone(rs) ==
    [i \in 1..Len(rs) |->
        DictSet(rs[i], "cost", rs[i]["distance"] * CostPerDistance + 1)]

\* CostAgent.process: r["cost"] = r["distance"] * 5 for every r
CostAgent_process(rs) ==
    [i \in 1..Len(rs) |->
        DictSet(rs[i], "cost", rs[i]["distance"] * CostPerDistance)]

\* index of the first candidate whose time is 0 (Len + 1 when there is none)
RECURSIVE FirstZeroTime(_, _)
FirstZeroTime(rs, i) ==
    IF i > Len(rs) THEN i
    ELSE IF rs[i]["time"] = 0 THEN i
    ELSE FirstZeroTime(rs, i + 1)

TimeAgent_clobber(rs) ==
    LET z == FirstZeroTime(rs, 1) IN
    [exc |-> IF z > Len(rs) THEN "" ELSE "ZeroDivisionError",
     routes |-> [i \in 1..Len(rs) |->
                    IF i < z
                    THEN DictSet(DictSet(rs[i], "score_time", <<1, rs[i]["time"]>>),
                                 "distance", 0)
                    ELSE rs[i]]]

\* TimeAgent.process: r["score_time"] = 1 / r["time"] in list order; the
\* division raises ZeroDivisionError at the first time = 0, the candidates
\* before it are already annotated (the dicts are mutated in place)
TimeAgent_process(rs) ==
    LET z == FirstZeroTime(rs, 1) IN
    [exc |-> IF z > Len(rs) THEN "" ELSE "ZeroDivisionError",
     routes |-> [i \in 1..Len(rs) |->
                    IF i < z
                    THEN DictSet(rs[i], "score_time", <<1, rs[i]["time"]>>)
                    ELSE rs[i]]]

\* ResourceAgent.process: r["feasible"] = True for every r
ResourceAgent_process(rs) ==
    [i \in 1..Len(rs) |-> DictSet(rs[i], "feasible", TRUE)]

(* ------------------------------ fusion -------------------------------- *)
Score_feasible(r, w) ==
    IF "feasible" \in DOMAIN r /\ r["feasible"] = FALSE
    THEN <<-2, 1>>
    ELSE <<w["time_weight"] * r["cost"] + w["cost_weight"] * r["time"],
           10 * r["time"] * r["cost"]>>

\* score = time_weight * (1 / time) + cost_weight * (1 / cost), time, cost # 0
Score(r, w) ==
    <<w["time_weight"] * r["cost"] + w["cost_weight"] * r["time"],
      10 * r["time"] * r["cost"]>>

Beats_ge(score, best_score) == ~RatGT(best_score, score)

\* if score > best_score
Beats(score, best_score) == RatGT(score, best_score)

\* the for loop of select_best from candidate i on
RECURSIVE Scan(_, _, _, _, _)
Scan(rs, w, i, best_score, best_idx) ==
    IF i > Len(rs) THEN [exc |-> "", idx |-> best_idx]
    ELSE IF rs[i]["time"] = 0 \/ rs[i]["cost"] = 0
         THEN [exc |-> "ZeroDivisionError", idx |-> 0]
    ELSE IF Beats(Score(rs[i], w), best_score)
         THEN Scan(rs, w, i + 1, Score(rs[i], w), i)
         ELSE Scan(rs, w, i + 1, best_score, best_idx)

\* DecisionFusion.select_best: idx is the position of best_route, 0 is None
select_best(rs, w) == Scan(rs, w, 1, <<-1, 1>>, 0)

(* ------------------------------ driver -------------------------------- *)
SeqsUpTo(S, n) == UNION {[1..k -> S] : k \in 0..n}

\* what the route source may return: the literal list and every short list
SourceLists == {LiteralRoutes} \cup SeqsUpTo(Distances \X Times, MaxRoutes)

StageOrder == <<"pref", "route", "cost", "time", "resource", "fusion", "report">>

NextStage_swapped(s) ==
    CASE s = "pref" -> "route"
      [] s = "route" -> "time"
      [] s = "time" -> "cost"
      [] s = "cost" -> "resource"
      [] s = "resource" -> "fusion"
      [] s = "fusion" -> "report"
      [] OTHER -> "done"

\* the statement order of run_planit, Step 3 to Step 5
NextStage(s) ==
    CASE s = "pref" -> "route"
      [] s = "route" -> "cost"
      [] s = "cost" -> "time"
      [] s = "time" -> "resource"
      [] s = "resource" -> "fusion"
      [] s = "fusion" -> "report"
      [] OTHER -> "done"

Init ==
    /\ pc = "pref"
    /\ user_input \in {[source |-> "Location A", destination |-> "Location B",
                        priority |-> p] : p \in Priorities}
    /\ source \in SourceLists
    /\ routes = <<>>
    /\ weights = NoWeights
    /\ best = 0
    /\ error = NoError
    /\ log = <<>>
    /\ printed = <<>>

\* weights = pref_agent.process(user_input)
StepPreference ==
    /\ pc = "pref"
    /\ weights' = PreferenceAgent_process(user_input)
    /\ log' = Append(log, "pref")
    /\ pc' = NextStage(pc)
    /\ UNCHANGED <<user_input, source, routes, best, error, printed>>

\* routes = route_agent.process(user_input)
StepRoute ==
    /\ pc = "route"
    /\ routes' = RouteAgent_process(source)
    /\ log' = Append(log, "route")
    /\ pc' = NextStage(pc)
    /\ UNCHANGED <<user_input, source, weights, best, error, printed>>

\* routes = cost_agent.process(routes)
StepCost ==
    /\ pc = "cost"
    /\ routes' = CostAgent_process(routes)
    /\ log' = Append(log, "cost")
    /\ pc' = NextStage(pc)
    /\ UNCHANGED <<user_input, source, weights, best, error, printed>>

\* routes = time_agent.process(routes); an exception leaves run_planit
StepTime ==
    /\ pc = "time"
    /\ LET res == TimeAgent_process(routes) IN
        /\ routes' = res.routes
        /\ IF res.exc = ""
           THEN pc' = NextStage(pc) /\ error' = error
           ELSE pc' = "raised" /\ error' = [kind |-> res.exc, candidate |-> ""]
    /\ log' = Append(log, "time")
    /\ UNCHANGED <<user_input, source, weights, best, printed>>

\* routes = resource_agent.process(routes)
StepResource ==
    /\ pc = "resource"
    /\ routes' = ResourceAgent_process(routes)
    /\ log' = Append(log, "resource")
    /\ pc' = NextStage(pc)
    /\ UNCHANGED <<user_input, source, weights, best, error, printed>>

\* best_route = DecisionFusion.select_best(routes, weights)
StepFusion ==
    /\ pc = "fusion"
    /\ LET res == select_best(routes, weights) IN
        IF res.exc = ""
        THEN pc' = NextStage(pc) /\ best' = res.idx /\ error' = error
        ELSE pc' = "raised" /\ best' = best
             /\ error' = [kind |-> res.exc, candidate |-> ""]
    /\ log' = Append(log, "fusion")
    /\ UNCHANGED <<user_input, source, routes, weights, printed>>

\* print(best_route): the position of the printed candidate, 0 prints None
StepReport ==
    /\ pc = "report"
    /\ printed' = Append(printed, best)
    /\ log' = Append(log, "report")
    /\ pc' = NextStage(pc)
    /\ UNCHANGED <<user_input, source, routes, weights, best, error>>

Next ==
    \/ StepPreference
    \/ StepRoute
    \/ StepCost
    \/ StepTime
    \/ StepResource
    \/ StepFusion
    \/ StepReport

Spec == Init /\ [][Next]_vars

(* --------------------------- single calls ----------------------------- *)
BaseCandidates ==
    {[route |-> "r", distance |-> d, time |-> t] :
        d \in UnitDistances, t \in UnitTimes}

AnnotatedCandidates ==
    {[route |-> "r", time |-> t, cost |-> c, score_time |-> <<1, 1>>,
      feasible |-> TRUE] : t \in UnitTimes, c \in UnitCosts}

\* the candidates of a call carry the identifier of their position
Named(rs) == [i \in 1..Len(rs) |-> DictSet(rs[i], "route", RouteName(i))]

InitAgents ==
    /\ source = <<>>
    /\ best = 0
    /\ error = NoError
    /\ log = <<>>
    /\ printed = <<>>
    /\ \/ /\ pc = "call_pref"
          /\ user_input \in {[priority |-> p] : p \in Priorities}
          /\ routes = <<>>
          /\ weights = NoWeights
       \/ /\ pc \in {"call_cost", "call_time", "call_resource"}
          /\ user_input = [priority |-> "fast"]
          /\ routes \in {Named(rs) : rs \in SeqsUpTo(BaseCandidates, MaxRoutes)}
          /\ weights = NoWeights
       \/ /\ pc = "call_fusion"
          /\ user_input = [priority |-> "fast"]
          /\ routes \in {Named(rs) : rs \in SeqsUpTo(AnnotatedCandidates, MaxRoutes)}
          /\ weights \in {[time_weight |-> tw, cost_weight |-> cw] :
                            tw \in UnitWeights, cw \in UnitWeights}

CallPreference ==
    /\ pc = "call_pref"
    /\ weights' = PreferenceAgent_process(user_input)
    /\ log' = Append(log, "pref")
    /\ pc' = "returned"
    /\ UNCHANGED <<user_input, source, routes, best, error, printed>>

CallCost ==
    /\ pc = "call_cost"
    /\ routes' = CostAgent_process(routes)
    /\ log' = Append(log, "cost")
    /\ pc' = "returned"
    /\ UNCHANGED <<user_input, source, weights, best, error, printed>>

CallTime ==
    /\ pc = "call_time"
    /\ LET res == TimeAgent_process(routes) IN
        /\ routes' = res.routes
        /\ IF res.exc = ""
           THEN pc' = "returned" /\ error' = error
           ELSE pc' = "raised" /\ error' = [kind |-> res.exc, candidate |-> ""]
    /\ log' = Append(log, "time")
    /\ UNCHANGED <<user_input, source, weights, best, printed>>

CallResource ==
    /\ pc = "call_resource"
    /\ routes' = ResourceAgent_process(routes)
    /\ log' = Append(log, "resource")
    /\ pc' = "returned"
    /\ UNCHANGED <<user_input, source, weights, best, error, printed>>

CallFusion ==
    /\ pc = "call_fusion"
    /\ LET res == select_best(routes, weights) IN
        IF res.exc = ""
        THEN pc' = "returned" /\ best' = res.idx /\ error' = error
        ELSE pc' = "raised" /\ best' = best
             /\ error' = [kind |-> res.exc, candidate |-> ""]
    /\ log' = Append(log, "fusion")
    /\ UNCHANGED <<user_input, source, routes, weights, printed>>

NextAgents ==
    \/ CallPreference
    \/ CallCost
    \/ CallTime
    \/ CallResource
    \/ CallFusion

SpecAgents == InitAgents /\ [][NextAgents]_vars

(* ------------------------------ claims -------------------------------- *)
Has(rs, k) == \A i \in 1..Len(rs) : k \in DOMAIN rs[i]
AllPositive(rs) == \A i \in 1..Len(rs) : rs[i]["time"] > 0 /\ rs[i]["cost"] > 0
Offending(rs) == {i \in 1..Len(rs) : rs[i]["time"] <= 0 \/ rs[i]["cost"] <= 0}
IsPrefix(s, t) == Len(s) <= Len(t) /\ \A i \in 1..Len(s) : s[i] = t[i]

\* C1: a call of select_best on a non-empty sequence whose candidates all have
\* time > 0 and cost > 0, with non-negative weights, returns a candidate whose
\* score no other candidate exceeds, and every candidate before it in the
\* input order has a strictly smaller score (the first of the greatest).
C1_SelectsFirstGreatest ==
    (log = <<"fusion">> /\ Len(routes) > 0 /\ AllPositive(routes)
        /\ weights["time_weight"] >= 0 /\ weights["cost_weight"] >= 0)
    => /\ pc = "returned"
       /\ best \in 1..Len(routes)
       /\ \A j \in 1..Len(routes) :
            ~RatGT(Score(routes[j], weights), Score(routes[best], weights))
       /\ \A j \in 1..Len(routes) :
            j < best => RatGT(Score(routes[best], weights), Score(routes[j], weights))

\* two distinct candidates tie for the greatest score and the first is returned
C1_Witness ==
    /\ log = <<"fusion">>
    /\ pc = "returned"
    /\ Len(routes) = 2
    /\ AllPositive(routes)
    /\ routes[1]["time"] # routes[2]["time"]
    /\ RatEQ(Score(routes[1], weights), Score(routes[2], weights))
    /\ best = 1

\* C2: PreferenceAgent.process returns 0.6 / 0.4 for priority "fast" and
\* 0.4 / 0.6 for "cheap" and every other priority; the two weights sum to 1.0
\* (weights in tenths: 6 / 4, 4 / 6, sum 10).
C2_PreferenceWeights ==
    log = <<"pref">>
    => /\ user_input["priority"] = "fast"
            => weights = [time_weight |-> 6, cost_weight |-> 4]
       /\ user_input["priority"] # "fast"
            => weights = [time_weight |-> 4, cost_weight |-> 6]
       /\ weights["time_weight"] + weights["cost_weight"] = 10

\* a priority that is neither "fast" nor "cheap" has been interpreted
C2_Witness ==
    /\ log = <<"pref">>
    /\ pc = "returned"
    /\ user_input["priority"] = "other"
    /\ weights = [time_weight |-> 4, cost_weight |-> 6]

\* C3: select_best called with an empty candidate sequence fails with a
\* ValidationError and never returns None.
C3_EmptyFusionFails ==
    (log = <<"fusion">> /\ Len(routes) = 0)
    => (pc = "raised" /\ error["kind"] = "ValidationError")

\* C4: TimeAgent.process stores score_time = 1 / time on every candidate when
\* every time > 0, and raises a ValidationError when some time is 0 or negative.
C4_TimeScoreOrValidationError ==
    log = <<"time">>
    => IF \E i \in 1..Len(routes) : routes[i]["time"] <= 0
       THEN pc = "raised" /\ error["kind"] = "ValidationError"
       ELSE /\ pc = "returned"
            /\ \A i \in 1..Len(routes) :
                 /\ "score_time" \in DOMAIN routes[i]
                 /\ routes[i]["score_time"] = <<1, routes[i]["time"]>>

\* C5: select_best on a sequence holding a candidate with cost <= 0 or
\* time <= 0 ends in a fusion-level error that names an offending candidate;
\* it raises no bare numeric exception and returns no selection and no None.
C5_FusionRejectsNonPositive ==
    (log = <<"fusion">> /\ Offending(routes) # {})
    => /\ pc = "raised"
       /\ error["kind"] # "ZeroDivisionError"
       /\ \E i \in Offending(routes) : error["candidate"] = routes[i]["route"]

\* C6: the stages of run_planit run once each in the order preference, route,
\* cost, time, feasibility, fusion, report, each over the whole candidate set
\* before the next starts; once a stage has failed no further stage runs and
\* nothing is reported.
C6_StageInv ==
    /\ IsPrefix(log, StageOrder)
    /\ pc = "done" => (log = StageOrder /\ Len(printed) = 1)
    /\ pc \notin {"done", "raised"} => (Len(log) < 7 /\ pc = StageOrder[Len(log) + 1])
    /\ Len(log) < 2 => routes = <<>>
    /\ Len(log) >= 2 => Len(routes) = Len(source)
    /\ \A i \in 1..Len(routes) :
        /\ "cost" \in DOMAIN routes[i] <=> Len(log) >= 3
        /\ "score_time" \in DOMAIN routes[i] => Len(log) >= 4
        /\ (Len(log) >= 4 /\ pc # "raised") => "score_time" \in DOMAIN routes[i]
        /\ "feasible" \in DOMAIN routes[i] <=> Len(log) >= 5
    /\ (pc = "raised" <=> error # NoError)
    /\ pc = "raised" => (printed = <<>> /\ log[Len(log)] \in {"time", "fusion"})

C6_StageStep ==
    /\ pc = "raised" => UNCHANGED vars
    /\ Len(log') <= Len(log) + 1

C6_StagesInOrder == []C6_StageInv /\ [][C6_StageStep]_vars

\* the seven stages have run over a non-empty candidate set and reported
C6_Witness ==
    /\ pc = "done"
    /\ log = StageOrder
    /\ Len(routes) = 2
    /\ printed = <<best>>

\* C7: the cost, time and feasibility stages write only their own field
\* (cost, score_time, feasible) and leave every other field of every
\* candidate, and the number and order of the candidates, as they were;
\* fusion changes no candidate at all.
FrameExcept(k) ==
    /\ Len(routes') = Len(routes)
    /\ \A i \in 1..Len(routes) :
        /\ DOMAIN routes'[i] \subseteq (DOMAIN routes[i]) \cup {k}
        /\ \A f \in (DOMAIN routes[i]) \ {k} :
             f \in DOMAIN routes'[i] /\ routes'[i][f] = routes[i][f]

C7_StagesKeepEarlierFields ==
    [][ /\ pc = "cost" => FrameExcept("cost")
        /\ pc = "time" => FrameExcept("score_time")
        /\ pc = "resource" => FrameExcept("feasible")
        /\ pc = "fusion" => routes' = routes ]_vars

\* the three annotation stages and fusion have run over two candidates
C7_Witness ==
    /\ pc = "report"
    /\ Len(routes) = 2
    /\ Has(routes, "cost") /\ Has(routes, "score_time") /\ Has(routes, "feasible")
    /\ \A i \in 1..2 : routes[i]["distance"] = source[i][1]
                       /\ routes[i]["time"] = source[i][2]

\* C8: on the routes A (10, 20), B (14, 15), C (8, 25) the pipeline computes
\* the costs 50, 70 and 40 and selects Route B, with priority "fast"
\* (weights 0.6 / 0.4) as with priority "cheap" (weights 0.4 / 0.6).
C8_LiteralRoutesSelectB ==
    (source = LiteralRoutes /\ pc = "done"
        /\ user_input["priority"] \in {"fast", "cheap"})
    => /\ weights = (IF user_input["priority"] = "fast"
                     THEN [time_weight |-> 6, cost_weight |-> 4]
                     ELSE [time_weight |-> 4, cost_weight |-> 6])
       /\ <<routes[1]["route"], routes[2]["route"], routes[3]["route"]>>
            = <<"Route A", "Route B", "Route C">>
       /\ <<routes[1]["cost"], routes[2]["cost"], routes[3]["cost"]>> = <<50, 70, 40>>
       /\ best = 2
       /\ printed = <<2>>

\* the run on the literal routes with priority "cheap" has finished
C8_Witness ==
    /\ source = LiteralRoutes
    /\ pc = "done"
    /\ user_input["priority"] = "cheap"
    /\ routes[best]["route"] = "Route B"

\* C9: once cost estimation has run, every candidate's cost is five times the
\* distance the route source gave it, whatever the distance.
C9_CostIsFiveTimesDistance ==
    Len(log) >= 3
    => /\ Len(routes) = Len(source)
       /\ \A i \in 1..Len(routes) :
            "cost" \in DOMAIN routes[i] /\ routes[i]["cost"] = 5 * source[i][1]

\* cost estimation has run on a negative and on a positive distance
C9_Witness ==
    /\ log = <<"pref", "route", "cost">>
    /\ Len(routes) = 2
    /\ routes[1]["cost"] = -5
    /\ routes[2]["cost"] = 70

\* C10: the outcome of select_best is the same on every sequence that differs
\* from its argument only in the feasible flags and the stored score_time
\* values (same identifiers, times, costs and weights): the same position is
\* selected.
Alterations(rs) ==
    {[i \in 1..Len(rs) |->
        DictSet(DictSet(rs[i], "feasible", f[i]), "score_time", s[i])] :
        f \in [1..Len(rs) -> BOOLEAN], s \in [1..Len(rs) -> ScoreTimeAlts]}

C10_SelectionIgnoresFeasible ==
    log = <<"fusion">>
    => \A alt \in Alterations(routes) :
         /\ (select_best(alt, weights).exc = "") <=> (pc = "returned")
         /\ pc = "returned" => select_best(alt, weights).idx = best

\* the second of two candidates has been selected
C10_Witness ==
    /\ log = <<"fusion">>
    /\ pc = "returned"
    /\ Len(routes) = 2
    /\ best = 2

====
